---- MODULE Spec2Model ----
(***************************************************************************)
(* GLOW wrapper (glow_basic.py, cmake_build.py).                           *)
(*                                                                         *)
(* Three specifications over one set of variables:                         *)
(*   Spec      glowparse on a captured text (the three genfromtxt reads)   *)
(*   SpecExe   get_exe / cmake_build / maxwellian in one process           *)
(*   SpecDate  glowdate on a timestamp                                     *)
(*                                                                         *)
(* Text model.  A text is a sequence of lines, a line is the sequence of   *)
(* its whitespace-separated tokens.  A token >= 0 is a numeric literal of  *)
(* that value, a token < 0 is a word that is no number ("Z", "Tn", ...).   *)
(* Python runs without -O, so assert statements are in effect.             *)
(***************************************************************************)
EXTENDS Integers, Sequences, FiniteSets, TLC

VARIABLES
    pc,        \* position of the running call ("idle" between calls)
    layout,    \* how the captured text was laid out (input description)
    raw,       \* glowparse: the text handed to the parser
    table,     \* glowparse: number of lines consumed from io.StringIO(raw)
    header,    \* glowparse: local `header` (shape and rows)
    dat,       \* glowparse: local `dat` (last table read)
    iono,      \* glowparse: local `iono`, the dataset being assembled
    exc,       \* exception that ended the call, "none" otherwise
    cache,     \* functools.cache of get_exe: call key -> path
    bin_dir,   \* names of the executables present in <src_dir>/build
    call,      \* get_exe / maxwellian: what the last call did (n: calls so far;
               \* retry: it repeats the arguments of a get_exe call that just failed)
    t,         \* glowdate: the timestamp
    date       \* glowdate: the returned (idate, utsec)

vars == <<pc, layout, raw, table, header, dat, iono, exc, cache, bin_dir, call, t, date>>

parseVars == <<layout, raw, table, header, dat, iono, exc>>
exeVars == <<cache, bin_dir, call>>
dateVars == <<t, date>>

Min(a, b) == IF a < b THEN a ELSE b

----------------------------------------------------------------------------
(* glowparse: constants of the function                                    *)

Nalt == 102

HeaderSize == 10

glow_var == <<"Tn", "O", "N2", "NO", "NeIn", "NeOut", "ionrate",
              "O+", "O2+", "NO+", "N2D", "pedersen", "hall">>

wavelen == <<"3371", "4278", "5200", "5577", "6300", "7320", "10400",
             "3644", "7774", "8446", "3726", "LBH", "1356", "1493", "1304">>

----------------------------------------------------------------------------
(* numpy: token conversion and float comparison                            *)

\* float(token): a numeric literal gives its value, a word gives nan (-1)
Float(tok) == IF tok < 0 THEN -1 ELSE tok

IsNaN(x) == x < 0

\* IEEE ==: nan equals nothing, not even nan
FloatEq(a, b) == ~IsNaN(a) /\ ~IsNaN(b) /\ a = b

\* one line of tokens converted to a row of floats
ConvertRow(line) == [j \in 1..Len(line) |-> Float(line[j])]

----------------------------------------------------------------------------
(* numpy.genfromtxt(fhd, skip_header=, max_rows=) on an open handle        *)

\* index of the first line after position p that has any token, 0 if none
FirstValues(lines, p) ==
    LET some == {k \in (p + 1)..Len(lines) : Len(lines[k]) > 0}
    IN  IF some = {} THEN 0 ELSE CHOOSE k \in some : \A m \in some : k <= m

\* the row loop from line `first` on: a line without tokens is skipped, a
\* line whose token count differs from the first row's is recorded invalid
\* and skipped, every other line is appended, and the loop stops at the line
\* that completes max_rows rows (or at the end of the text)
ReadRows(lines, first, nbcols, max_rows) ==
    LET good == {k \in first..Len(lines) : Len(lines[k]) = nbcols}
        stop == IF Cardinality(good) < max_rows THEN Len(lines)
                ELSE CHOOSE i \in good : Cardinality({k \in good : k <= i}) = max_rows
        IsRow(line) == Len(line) = nbcols
        kept == SelectSeq(SubSeq(lines, first, stop), IsRow)
    IN  [rows |-> [i \in 1..Len(kept) |-> ConvertRow(kept[i])],
         pos |-> stop,
         invalid |-> \E k \in first..stop : Len(lines[k]) # 0 /\ Len(lines[k]) # nbcols]

\* result: the rows read, the column count, the handle position afterwards,
\* and the exception ("ValueError" when some line had another column count)
genfromtxt(lines, p, skip_header, max_rows) ==
    LET p0 == Min(p + skip_header, Len(lines))
        first == FirstValues(lines, p0)
    IN  IF first = 0
        THEN [rows |-> <<>>, ncols |-> 0, pos |-> Len(lines), exc |-> "none"]
        ELSE LET r == ReadRows(lines, first, Len(lines[first]), max_rows)
             IN  [rows |-> r.rows, ncols |-> Len(lines[first]), pos |-> r.pos,
                  exc |-> IF r.invalid THEN "ValueError" ELSE "none"]

\* ndarray.size and ndarray.ndim of the squeezed output
Size(a) == Len(a.rows) * a.ncols
Ndim(a) == (IF Len(a.rows) > 1 THEN 1 ELSE 0) + (IF a.ncols > 1 THEN 1 ELSE 0)
           + (IF Len(a.rows) = 0 THEN 1 ELSE 0)

----------------------------------------------------------------------------
(* glowparse, statement by statement                                       *)

NoDataset == [alt_km |-> <<>>, data_vars |-> <<>>, ver |-> <<>>, wavelength |-> <<>>]

NoArray == [rows |-> <<>>, ncols |-> 0]

Array(g) == [rows |-> g.rows, ncols |-> g.ncols]

\* dat[:, j] for a 2-D array (j counted from 0 as in the source)
Column(a, j) == [i \in 1..Len(a.rows) |-> a.rows[i][j + 1]]

\* dat[:, 1:]
DataColumns(a) == [i \in 1..Len(a.rows) |-> SubSeq(a.rows[i], 2, a.ncols)]

\* the same with the altitude column taken for the first quantity (dat[:, 0:])
ZipVarsFromAltitude(a) ==
    [k \in {glow_var[j] : j \in 1..Min(Len(glow_var), a.ncols - 1)} |->
        Column(a, (CHOOSE j \in 1..Len(glow_var) : glow_var[j] = k) - 1)]

\* {k: ("alt_km", v) for (k, v) in zip(glow_var, dat[:, 1:].T)}
ZipVars(a) ==
    [k \in {glow_var[j] : j \in 1..Min(Len(glow_var), a.ncols - 1)} |->
        Column(a, CHOOSE j \in 1..Len(glow_var) : glow_var[j] = k)]

\* a header check that only asks for enough fields
HeaderOkAtLeast(g) == Size(g) >= HeaderSize

\* line 130: assert header.size == 10
HeaderOk(g) == Size(g) = HeaderSize

\* a column check that only asks for enough columns
ColumnsMatchAtLeast(g) == Len(glow_var) <= g.ncols - 1

\* line 137: len(glow_var) != dat.shape[1] - 1 raises ValueError
ColumnsMatch(g) == Len(glow_var) = g.ncols - 1

\* lines 126-130: skip the echo line, read one row, assert header.size == 10
HeaderStage(text) ==
    LET g == genfromtxt(text, 0, 1, 1)
    IN  [header |-> Array(g), pos |-> g.pos,
         exc |-> IF g.exc # "none" THEN g.exc
                 ELSE IF ~HeaderOk(g) THEN "AssertionError"
                 ELSE "none"]

\* lines 134-143: skip one line, read Nalt rows, build the 13 profiles
Block1Stage(text, p) ==
    LET g == genfromtxt(text, p, 1, Nalt)
        a == Array(g)
        e == IF g.exc # "none" THEN g.exc
             ELSE IF Ndim(g) < 2 THEN "IndexError"
             ELSE IF ~ColumnsMatch(g) THEN "ValueError"
             ELSE IF Len(glow_var) # Cardinality(DOMAIN ZipVars(a)) THEN "AssertionError"
             ELSE "none"
    IN  [dat |-> a, pos |-> g.pos, exc |-> e,
         iono |-> IF e = "none"
                  THEN [alt_km |-> Column(a, 0), data_vars |-> ZipVars(a),
                        ver |-> <<>>, wavelength |-> <<>>]
                  ELSE NoDataset]

\* an anchor check that never fails
AnchorUnchecked(a, alt_km) == TRUE

\* line 146: assert dat[0, 0] == alt_km[0]
AnchorMatches(a, alt_km) == FloatEq(a.rows[1][1], alt_km[1])

\* a shape check on the width alone
VerFitsWidthOnly(a, alt_km) == a.ncols - 1 = Len(wavelen)

\* lines 165-170: xarray.DataArray refuses data whose shape differs from its coordinates
VerFits(a, alt_km) == Len(a.rows) = Len(alt_km) /\ a.ncols - 1 = Len(wavelen)

\* lines 145-175: skip one line, read Nalt rows, check the anchor, attach ver
Block2Stage(text, p, ds) ==
    LET g == genfromtxt(text, p, 1, Nalt)
        a == Array(g)
        e == IF g.exc # "none" THEN g.exc
             ELSE IF Ndim(g) < 2 THEN "IndexError"
             ELSE IF ~AnchorMatches(a, ds.alt_km) THEN "AssertionError"
             ELSE IF ~VerFits(a, ds.alt_km) THEN "ValueError"
             ELSE "none"
    IN  [dat |-> a, pos |-> g.pos, exc |-> e,
         iono |-> IF e = "none"
                  THEN [ds EXCEPT !.ver = DataColumns(a), !.wavelength = wavelen]
                  ELSE ds]

\* the whole function: the returned dataset, or the exception raised
glowparse(text) ==
    LET h == HeaderStage(text) IN
    IF h.exc # "none" THEN [iono |-> NoDataset, exc |-> h.exc] ELSE
    LET b1 == Block1Stage(text, h.pos) IN
    IF b1.exc # "none" THEN [iono |-> NoDataset, exc |-> b1.exc] ELSE
    LET b2 == Block2Stage(text, b1.pos, b1.iono) IN
    IF b2.exc # "none" THEN [iono |-> NoDataset, exc |-> b2.exc]
    ELSE [iono |-> b2.iono, exc |-> "none"]

----------------------------------------------------------------------------
(* Captured texts the parser is run on                                     *)

\* block lengths tried: Nalt - RowSlack .. Nalt + RowSlack
RowSlack == 1

\* altitude of row i (from 0) of the first block, ascending
Alt(i) == 80 + i

\* value printed at row i (from 0), data column j (from 1) of block b
Val(b, i, j) == 10000 * b + 20 * i + j

Layouts ==
    [hdr    : (HeaderSize - 1)..(HeaderSize + 1),
     titles : BOOLEAN,      \* a column-title line precedes each data block
     rows1  : (Nalt - RowSlack)..(Nalt + RowSlack),
     cols1  : (Len(glow_var) - 1)..(Len(glow_var) + 1),
     rows2  : (Nalt - RowSlack)..(Nalt + RowSlack),
     cols2  : (Len(wavelen) - 1)..(Len(wavelen) + 1),
     anchor : BOOLEAN,      \* second block's first altitude equals the first block's
     drift  : BOOLEAN]      \* second block's later altitudes are on another grid

Words(n) == [j \in 1..n |-> -1]

EchoLine == Words(3)

HeaderLine(L) == [j \in 1..L.hdr |-> j]

Alt2(L, i) ==
    IF i = 0 THEN (IF L.anchor THEN Alt(0) ELSE Alt(0) + 500)
    ELSE (IF L.drift THEN Alt(i) + 500 ELSE Alt(i))

Row1(L, i) == <<Alt(i)>> \o [j \in 1..L.cols1 |-> Val(1, i, j)]
Row2(L, i) == <<Alt2(L, i)>> \o [j \in 1..L.cols2 |-> Val(2, i, j)]

Block1(L) == [i \in 1..L.rows1 |-> Row1(L, i - 1)]
Block2(L) == [i \in 1..L.rows2 |-> Row2(L, i - 1)]

Title(L, n) == IF L.titles THEN <<Words(n + 1)>> ELSE <<>>

Text(L) ==
    <<EchoLine, HeaderLine(L)>>
    \o Title(L, L.cols1) \o Block1(L)
    \o Title(L, L.cols2) \o Block2(L)

\* number of lines before the first row of the first data block
Block1Start(L) == 2 + (IF L.titles THEN 1 ELSE 0)

----------------------------------------------------------------------------
(* Spec: one run of glowparse                                              *)

NoCall == [n |-> 0, fn |-> "", key |-> "", name |-> "", hit |-> FALSE, found1 |-> FALSE,
           searches |-> 0, builds |-> 0, path |-> <<>>, stage |-> "", runs |-> 0, parses |-> 0,
           retry |-> FALSE]

NoTime == [year |-> 0, month |-> 0, day |-> 0, hour |-> 0, minute |-> 0, second |-> 0]

NoDate == [idate |-> <<>>, utsec |-> <<>>]

InitParse ==
    /\ pc = "header"
    /\ layout \in Layouts
    /\ raw = Text(layout)
    /\ table = 0
    /\ header = NoArray
    /\ dat = NoArray
    /\ iono = NoDataset
    /\ exc = "none"
    /\ cache = <<>>
    /\ bin_dir = {}
    /\ call = NoCall
    /\ t = NoTime
    /\ date = NoDate

ReadHeader ==
    /\ pc = "header"
    /\ LET h == HeaderStage(raw) IN
        /\ header' = h.header
        /\ table' = h.pos
        /\ exc' = h.exc
        /\ pc' = IF h.exc = "none" THEN "block1" ELSE "raised"
    /\ UNCHANGED <<layout, raw, dat, iono, exeVars, dateVars>>

ReadBlock1 ==
    /\ pc = "block1"
    /\ LET b == Block1Stage(raw, table) IN
        /\ dat' = b.dat
        /\ table' = b.pos
        /\ iono' = b.iono
        /\ exc' = b.exc
        /\ pc' = IF b.exc = "none" THEN "block2" ELSE "raised"
    /\ UNCHANGED <<layout, raw, header, exeVars, dateVars>>

ReadBlock2 ==
    /\ pc = "block2"
    /\ LET b == Block2Stage(raw, table, iono) IN
        /\ dat' = b.dat
        /\ table' = b.pos
        /\ iono' = IF b.exc = "none" THEN b.iono ELSE NoDataset
        /\ exc' = b.exc
        /\ pc' = IF b.exc = "none" THEN "returned" ELSE "raised"
    /\ UNCHANGED <<layout, raw, header, exeVars, dateVars>>

NextParse == ReadHeader \/ ReadBlock1 \/ ReadBlock2

Spec == InitParse /\ [][NextParse]_vars

----------------------------------------------------------------------------
(* get_exe, cmake_build, maxwellian (SpecExe)                              *)

MaxCalls == 3

BINPATH == "build"

\* the ways get_exe is called: functools.cache keys a call by its argument
\* list, and the name searched for is the argument or the default
CallForms ==
    {[key |-> "()", name |-> "glowbasic"],
     [key |-> "('glowbasic',)", name |-> "glowbasic"],
     [key |-> "('glowdriver',)", name |-> "glowdriver"]}

DefaultForm == [key |-> "()", name |-> "glowbasic"]

ExeNames == {f.name : f \in CallForms}

\* executables the CMake project of the source tree builds
Targets == {"glowbasic"}

BuildOutcomes == {"no_cmake", "configure_failed", "build_failed", "build_partial", "built"}

\* cmake_build: the exception it ends with and the build directory afterwards
\* (build_partial: the build step fails after the executable was linked)
cmake_build(b, outcome) ==
    CASE outcome = "no_cmake"         -> [exc |-> "FileNotFoundError", bin_dir |-> b]
      [] outcome = "configure_failed" -> [exc |-> "CalledProcessError", bin_dir |-> b]
      [] outcome = "build_failed"     -> [exc |-> "CalledProcessError", bin_dir |-> b]
      [] outcome = "build_partial"    -> [exc |-> "CalledProcessError", bin_dir |-> b \cup Targets]
      [] outcome = "built"            -> [exc |-> "none", bin_dir |-> b \cup Targets]

\* shutil.which(name, path=bin_dir)
Which(name, b) == name \in b

PathOf(name) == <<BINPATH, name>>

NoPath == <<>>

Remember(c, key, path) == [k \in DOMAIN c \cup {key} |-> IF k = key THEN path ELSE c[k]]

\* the body of get_exe (lines 43-52), run when the cache has no entry
get_exe_body(b, name, outcome) ==
    LET found1 == Which(name, b)
        built == IF found1 THEN [exc |-> "none", bin_dir |-> b] ELSE cmake_build(b, outcome)
        nbuilds == IF found1 THEN 0 ELSE 1
    IN  IF built.exc # "none"
        THEN [exc |-> built.exc, path |-> NoPath, bin_dir |-> built.bin_dir,
              searches |-> 1, builds |-> nbuilds, found1 |-> found1]
        ELSE IF ~Which(name, built.bin_dir)
        THEN [exc |-> "RuntimeError", path |-> NoPath, bin_dir |-> built.bin_dir,
              searches |-> 2, builds |-> nbuilds, found1 |-> found1]
        ELSE [exc |-> "none", path |-> PathOf(name), bin_dir |-> built.bin_dir,
              searches |-> 2, builds |-> nbuilds, found1 |-> found1]

\* a cache that answers but never stores
cached_never_stores(c, b, form, outcome) ==
    LET r == get_exe_body(b, form.name, outcome)
    IN  [exc |-> r.exc, path |-> r.path, bin_dir |-> r.bin_dir, cache |-> c,
         searches |-> r.searches, builds |-> r.builds, found1 |-> r.found1, hit |-> FALSE]

\* a cache that also stores the failure of a call
cached_failures_too(c, b, form, outcome) ==
    IF form.key \in DOMAIN c
    THEN [exc |-> IF c[form.key] = NoPath THEN "RuntimeError" ELSE "none",
          path |-> c[form.key], bin_dir |-> b, cache |-> c,
          searches |-> 0, builds |-> 0, found1 |-> FALSE, hit |-> TRUE]
    ELSE LET r == get_exe_body(b, form.name, outcome)
         IN  [exc |-> r.exc, path |-> r.path, bin_dir |-> r.bin_dir,
              cache |-> Remember(c, form.key, r.path),
              searches |-> r.searches, builds |-> r.builds, found1 |-> r.found1, hit |-> FALSE]

\* @functools.cache around get_exe (line 41): a stored result is returned
\* without running the body; only a returned value is stored, an exception
\* is not
get_exe(c, b, form, outcome) ==
    IF form.key \in DOMAIN c
    THEN [exc |-> "none", path |-> c[form.key], bin_dir |-> b, cache |-> c,
          searches |-> 0, builds |-> 0, found1 |-> FALSE, hit |-> TRUE]
    ELSE LET r == get_exe_body(b, form.name, outcome)
         IN  [exc |-> r.exc, path |-> r.path, bin_dir |-> r.bin_dir,
              cache |-> IF r.exc = "none" THEN Remember(c, form.key, r.path) ELSE c,
              searches |-> r.searches, builds |-> r.builds, found1 |-> r.found1, hit |-> FALSE]

ProcOutcomes == {"ok", "timeout", "nonzero"}

\* a check_output that runs the executable a second time after a failure
check_output_retry(proc) ==
    CASE proc = "timeout" -> [exc |-> "TimeoutExpired", runs |-> 2]
      [] proc = "nonzero" -> [exc |-> "CalledProcessError", runs |-> 2]
      [] proc = "ok"      -> [exc |-> "none", runs |-> 1]

\* subprocess.check_output(..., timeout=5) (lines 73-81): one run of the
\* executable; a timeout or a non-zero exit status raises
check_output(proc) ==
    CASE proc = "timeout" -> [exc |-> "TimeoutExpired", runs |-> 1]
      [] proc = "nonzero" -> [exc |-> "CalledProcessError", runs |-> 1]
      [] proc = "ok"      -> [exc |-> "none", runs |-> 1]

GoodLayout ==
    [hdr |-> HeaderSize, titles |-> TRUE, rows1 |-> Nalt, cols1 |-> Len(glow_var),
     rows2 |-> Nalt, cols2 |-> Len(wavelen), anchor |-> TRUE, drift |-> FALSE]

\* what the executable may print: its regular output, or one cut short
ProcessLayouts == {GoodLayout, [GoodLayout EXCEPT !.rows2 = Nalt - 1]}

\* dat, the text captured from the executable, and glowread's parse of it
CapturedText == [L \in ProcessLayouts |-> Text(L)]
ParsedText == [L \in ProcessLayouts |-> glowparse(CapturedText[L])]

\* the build outcomes that can differ for a call: none when nothing is built
BuildChoices(c, b, form) ==
    IF form.key \in DOMAIN c \/ Which(form.name, b) THEN {"built"} ELSE BuildOutcomes

InitExe ==
    /\ pc = "idle"
    /\ layout = GoodLayout
    /\ raw = <<>>
    /\ table = 0
    /\ header = NoArray
    /\ dat = NoArray
    /\ iono = NoDataset
    /\ exc = "none"
    /\ cache = <<>>
    /\ bin_dir \in SUBSET ExeNames
    /\ call = NoCall
    /\ t = NoTime
    /\ date = NoDate

\* one call get_exe(...) from any caller
GetExe(form) ==
    /\ call.n < MaxCalls
    /\ \E outcome \in BuildChoices(cache, bin_dir, form) :
         LET r == get_exe(cache, bin_dir, form, outcome) IN
           /\ cache' = r.cache
           /\ bin_dir' = r.bin_dir
           /\ exc' = r.exc
           /\ call' = [n |-> call.n + 1, fn |-> "get_exe", key |-> form.key, name |-> form.name,
                       hit |-> r.hit, found1 |-> r.found1, searches |-> r.searches,
                       builds |-> r.builds, path |-> r.path, stage |-> "get_exe",
                       runs |-> 0, parses |-> 0,
                       retry |-> call.fn = "get_exe" /\ exc # "none" /\ call.key = form.key]
    /\ UNCHANGED <<pc, layout, raw, table, header, dat, iono, dateVars>>

\* one call maxwellian(time, glat, glon, Q, Echar) (lines 67-83)
Maxwellian ==
    /\ call.n < MaxCalls
    /\ \E indices \in {"ok", "error"}, outcome \in BuildChoices(cache, bin_dir, DefaultForm),
          proc \in ProcOutcomes :
       \E L \in IF proc = "ok" THEN ProcessLayouts ELSE {GoodLayout} :
         LET g == get_exe(cache, bin_dir, DefaultForm, outcome)
             run == check_output(proc)
             parsed == ParsedText[L]
             stage == IF indices = "error" THEN "indices"
                      ELSE IF g.exc # "none" THEN "get_exe"
                      ELSE IF run.exc # "none" THEN "run"
                      ELSE "glowread"
         IN
           /\ cache' = IF stage = "indices" THEN cache ELSE g.cache
           /\ bin_dir' = IF stage = "indices" THEN bin_dir ELSE g.bin_dir
           /\ exc' = CASE stage = "indices" -> "IndicesError"
                       [] stage = "get_exe" -> g.exc
                       [] stage = "run" -> run.exc
                       [] stage = "glowread" -> parsed.exc
           /\ raw' = IF stage = "glowread" THEN CapturedText[L] ELSE <<>>
           /\ layout' = IF stage = "glowread" THEN L ELSE GoodLayout
           /\ iono' = IF stage = "glowread" THEN parsed.iono ELSE NoDataset
           /\ call' = [n |-> call.n + 1, fn |-> "maxwellian", key |-> DefaultForm.key,
                       name |-> DefaultForm.name,
                       hit |-> stage # "indices" /\ g.hit,
                       found1 |-> stage # "indices" /\ g.found1,
                       searches |-> IF stage = "indices" THEN 0 ELSE g.searches,
                       builds |-> IF stage = "indices" THEN 0 ELSE g.builds,
                       path |-> IF stage = "indices" THEN NoPath ELSE g.path,
                       stage |-> stage,
                       runs |-> IF stage \in {"run", "glowread"} THEN run.runs ELSE 0,
                       parses |-> IF stage = "glowread" THEN 1 ELSE 0,
                       retry |-> FALSE]
    /\ UNCHANGED <<pc, table, header, dat, dateVars>>

\* the build directory is emptied from outside the process
CleanBuildDir ==
    /\ call.n < MaxCalls
    /\ bin_dir # {}
    /\ bin_dir' = {}
    /\ UNCHANGED <<pc, parseVars, cache, call, dateVars>>

NextExe == (\E form \in CallForms : GetExe(form)) \/ Maxwellian \/ CleanBuildDir

SpecExe == InitExe /\ [][NextExe]_vars

----------------------------------------------------------------------------
(* glowdate (SpecDate).  A str is modelled as the sequence of its          *)
(* characters.                                                             *)

DigitChar == <<"0", "1", "2", "3", "4", "5", "6", "7", "8", "9">>

RECURSIVE Str(_)
\* str(n) and f'{n}' for an int n >= 0: decimal digits, no padding
Str(n) == IF n < 10 THEN <<DigitChar[n + 1]>>
          ELSE Str(n \div 10) \o <<DigitChar[(n % 10) + 1]>>

IsLeap(y) == y % 4 = 0 /\ (y % 100 # 0 \/ y % 400 = 0)

DaysInMonth(y, m) ==
    IF m = 2 THEN (IF IsLeap(y) THEN 29 ELSE 28)
    ELSE IF m \in {4, 6, 9, 11} THEN 30 ELSE 31

RECURSIVE DaysBeforeMonth(_, _)
DaysBeforeMonth(y, m) == IF m = 1 THEN 0 ELSE DaysBeforeMonth(y, m - 1) + DaysInMonth(y, m - 1)

\* tm_yday of the timestamp
DayOfYear(ts) == DaysBeforeMonth(ts.year, ts.month) + ts.day

\* t.strftime("%j"): day of the year as three digits, zero-padded
StrftimeJ(ts) ==
    LET d == DayOfYear(ts)
    IN  <<DigitChar[(d \div 100) + 1], DigitChar[((d \div 10) % 10) + 1], DigitChar[(d % 10) + 1]>>

\* a glowdate that writes the day of the year without padding
glowdate_unpadded_day(ts) ==
    [idate |-> Str(ts.year) \o Str(DayOfYear(ts)),
     utsec |-> Str(ts.hour * 3600 + ts.minute * 60 + ts.second)]

\* lines 183-186
glowdate(ts) ==
    [idate |-> Str(ts.year) \o StrftimeJ(ts),
     utsec |-> Str(ts.hour * 3600 + ts.minute * 60 + ts.second)]

\* datetime accepts the years 1..9999; the years tried
Years == {999, 1000, 1900, 2000, 2015, 2016, 9999}

Timestamps ==
    {ts \in [year : Years, month : 1..12, day : 1..31,
             hour : {0, 9, 23}, minute : {0, 59}, second : {0, 59}] :
        ts.day <= DaysInMonth(ts.year, ts.month)}

InitDate ==
    /\ pc = "call"
    /\ layout = GoodLayout
    /\ raw = <<>>
    /\ table = 0
    /\ header = NoArray
    /\ dat = NoArray
    /\ iono = NoDataset
    /\ exc = "none"
    /\ cache = <<>>
    /\ bin_dir = {}
    /\ call = NoCall
    /\ t \in Timestamps
    /\ date = NoDate

GlowDate ==
    /\ pc = "call"
    /\ date' = glowdate(t)
    /\ pc' = "returned"
    /\ UNCHANGED <<parseVars, exeVars, t>>

NextDate == GlowDate

SpecDate == InitDate /\ [][NextDate]_vars

----------------------------------------------------------------------------
(* Claims about glowparse (under Spec)                                     *)

Running == pc \in {"header", "block1", "block2"}

\* the text of the end-to-end scenario, with or without title lines
Scenario(L) ==
    /\ L.hdr = HeaderSize
    /\ L.rows1 = Nalt /\ L.cols1 = Len(glow_var)
    /\ L.rows2 = Nalt /\ L.cols2 = Len(wavelen)
    /\ L.anchor

\* the value printed at row 0, column 1 of the first data block of the text
FirstCell == raw[Block1Start(layout) + 1][2]

TnAtZero == iono.data_vars["Tn"][1]

\* C1 as stated: the scenario text without title lines (echo line, header
\* line, 102 rows of 14, 102 rows of 16) parses, and Tn at altitude index 0
\* is the value at row 0, column 1 of the first block.
C1_AsStated ==
    (Scenario(layout) /\ ~layout.titles /\ ~Running)
        => (pc = "returned" /\ TnAtZero = FirstCell)

\* C1 amended: when each data block is preceded by one title line (the line
\* each table read skips), the scenario text parses; Tn at altitude index 0 is
\* the value at row 0, column 1 of the first block, the altitude axis has 102
\* values, there are exactly 13 quantities and ver is 102 x 15.
C1_ScenarioWithTitles ==
    (Scenario(layout) /\ layout.titles /\ ~Running)
        => /\ pc = "returned"
           /\ exc = "none"
           /\ TnAtZero = FirstCell
           /\ TnAtZero = Val(1, 0, 1)
           /\ Len(iono.alt_km) = Nalt
           /\ iono.alt_km[1] = Alt(0)
           /\ Cardinality(DOMAIN iono.data_vars) = Len(glow_var)
           /\ Len(iono.ver) = Nalt
           /\ \A i \in 1..Len(iono.ver) : Len(iono.ver[i]) = Len(wavelen)

C1_Witness ==
    /\ pc = "returned"
    /\ Scenario(layout) /\ layout.titles
    /\ TnAtZero = Val(1, 0, 1)

\* C2: a dataset is returned only when both data blocks of the text have
\* exactly 102 rows (stated for texts with a title line before each block).
C2_RowCountEnforced ==
    (layout.titles /\ pc = "returned")
        => (layout.rows1 = Nalt /\ layout.rows2 = Nalt)

\* C3 as stated: whenever a dataset is returned, every row of the second
\* table has the altitude of the same row of the first table.
C3_AsStated ==
    pc = "returned"
        => \A i \in 1..Len(dat.rows) : FloatEq(dat.rows[i][1], iono.alt_km[i])

\* C3 amended: whenever a dataset is returned, the second table has as many
\* rows as the altitude axis and its first altitude equals the first value
\* of the altitude axis; later rows are not compared.
C3_FirstAltitudeOnly ==
    pc = "returned"
        => /\ Len(dat.rows) = Len(iono.alt_km)
           /\ Len(iono.ver) = Len(iono.alt_km)
           /\ FloatEq(dat.rows[1][1], iono.alt_km[1])

C3_Witness ==
    /\ pc = "returned"
    /\ layout.drift
    /\ dat.rows[2][1] # iono.alt_km[2]

\* C4: a header row that has not exactly 10 fields ends the call with the
\* failed assertion, after two lines (echo, header) were consumed and before
\* any table was read.
C4_HeaderChecked ==
    (layout.hdr # HeaderSize /\ pc # "header")
        => /\ pc = "raised"
           /\ exc = "AssertionError"
           /\ table = 2
           /\ table <= Block1Start(layout)
           /\ dat = NoArray
           /\ iono = NoDataset

C4_Witness ==
    /\ pc = "raised"
    /\ layout.hdr # HeaderSize
    /\ header.ncols = layout.hdr
    /\ Scenario([layout EXCEPT !.hdr = HeaderSize])

\* C5: when the first altitude of the second table differs from the first
\* altitude of the first table, the call raises and returns no dataset: in
\* terms of the arrays read, and in terms of the text when a title line
\* precedes each block.
C5_AnchorChecked ==
    /\ (pc = "returned" => FloatEq(dat.rows[1][1], iono.alt_km[1]))
    /\ (layout.titles /\ ~layout.anchor /\ ~Running)
           => (pc = "raised" /\ iono = NoDataset)

C5_Witness ==
    /\ pc = "raised"
    /\ exc = "AssertionError"
    /\ Scenario([layout EXCEPT !.anchor = TRUE]) /\ layout.titles /\ ~layout.anchor
    /\ Len(dat.rows) = Nalt
    /\ dat.ncols = Len(wavelen) + 1

\* C6: when the first block has a number of data columns other than 13, the
\* call raises and returns no dataset, whatever the number of rows.
C6_ColumnsChecked ==
    (layout.cols1 # Len(glow_var) /\ pc \notin {"header", "block1"})
        => (pc = "raised" /\ iono = NoDataset)

C6_Witness ==
    /\ pc = "raised"
    /\ exc = "ValueError"
    /\ layout.titles /\ layout.hdr = HeaderSize
    /\ layout.rows1 = Nalt /\ layout.cols1 # Len(glow_var)
    /\ Len(dat.rows) = Nalt
    /\ dat.ncols = layout.cols1 + 1

----------------------------------------------------------------------------
(* Claims about maxwellian and get_exe (under SpecExe)                     *)

\* C7: a maxwellian call whose executable timed out or exited non-zero ends
\* with that exception, has run the executable exactly once and has not run
\* the parser; no call runs the executable more than once, and the parser
\* runs only after a run that succeeded.
C7_NoRetryNoParse ==
    /\ (call.fn = "maxwellian" /\ call.stage = "run")
          => /\ exc \in {"TimeoutExpired", "CalledProcessError"}
             /\ call.runs = 1
             /\ call.parses = 0
             /\ iono = NoDataset
    /\ call.runs <= 1
    /\ (call.parses = 1 => (call.stage = "glowread" /\ call.runs = 1))

C7_Witness ==
    /\ call.fn = "maxwellian"
    /\ call.stage = "run"
    /\ exc = "TimeoutExpired"
    /\ call.runs = 1

\* a call has just been made
Called == call'.n # call.n

\* C8 as stated: once some get_exe call has returned a path, every later
\* get_exe call returns that same path without searching or building.
C8_AsStated ==
    [][(call.fn = "get_exe" /\ exc = "none" /\ Called /\ call'.fn = "get_exe")
          => (call'.path = call.path /\ call'.searches = 0 /\ call'.builds = 0)]_vars

\* C8 amended: once a get_exe call has returned a path, every later call
\* with the same arguments returns that same path without searching or
\* building; a cached entry is never changed or removed.
C8_PerArguments ==
    [][/\ \A k \in DOMAIN cache : k \in DOMAIN cache' /\ cache'[k] = cache[k]
       /\ (Called /\ call'.fn = "get_exe" /\ call'.key \in DOMAIN cache)
             => /\ exc' = "none"
                /\ call'.path = cache[call'.key]
                /\ call'.searches = 0
                /\ call'.builds = 0
       /\ (Called /\ call'.fn = "get_exe" /\ exc' = "none")
             => (call'.key \in DOMAIN cache' /\ cache'[call'.key] = call'.path)]_vars

\* a later call answered from the cache although the executable is gone
C8_Witness ==
    /\ call.fn = "get_exe"
    /\ call.hit
    /\ call.n >= 2
    /\ call.path = PathOf(call.name)
    /\ ~Which(call.name, bin_dir)

\* C10 as stated: after a get_exe call that failed, the next get_exe call
\* searches the build directory again.
C10_AsStated ==
    [][(call.fn = "get_exe" /\ exc # "none" /\ Called /\ call'.fn = "get_exe")
          => call'.searches >= 1]_vars

\* C10 amended: a failed get_exe call stores nothing, so the next get_exe
\* call with the same arguments searches the build directory again and
\* triggers the build again if the executable is still absent; in every
\* call the build is triggered exactly when the body runs and its first
\* search does not find the executable.
C10_FailuresNotCached ==
    [][/\ (Called /\ call'.fn = "get_exe" /\ exc' # "none")
             => (cache' = cache /\ call'.key \notin DOMAIN cache')
       /\ (call.fn = "get_exe" /\ exc # "none" /\ Called
            /\ call'.fn = "get_exe" /\ call'.key = call.key)
             => /\ ~call'.hit
                /\ call'.searches >= 1
                /\ (~Which(call'.name, bin_dir) => call'.builds = 1)
       /\ Called => (call'.builds = 1 <=> (~call'.hit /\ call'.stage # "indices"
                                           /\ ~Which(call'.name, bin_dir)))
       /\ Called => call'.builds <= 1]_vars

\* a failed call followed by a call with the same arguments that built again
C10_Witness ==
    /\ call.fn = "get_exe"
    /\ call.retry
    /\ call.builds = 1
    /\ call.searches = 1
    /\ exc = "CalledProcessError"
    /\ cache = <<>>

----------------------------------------------------------------------------
(* Claims about glowdate (under SpecDate)                                  *)

RECURSIVE NumVal(_)
\* the number a string of decimal digits denotes
NumVal(str) ==
    IF str = <<>> THEN 0
    ELSE 10 * NumVal(SubSeq(str, 1, Len(str) - 1))
         + ((CHOOSE d \in 1..10 : DigitChar[d] = str[Len(str)]) - 1)

SecondsOfDay(ts) == ts.hour * 3600 + ts.minute * 60 + ts.second

DateShape ==
    /\ Len(date.idate) = 7
    /\ NumVal(SubSeq(date.idate, 1, 4)) = t.year
    /\ NumVal(SubSeq(date.idate, 5, 7)) = DayOfYear(t)
    /\ DayOfYear(t) \in 1..366

SecondsShape ==
    /\ NumVal(date.utsec) = SecondsOfDay(t)
    /\ NumVal(date.utsec) \in 0..86399
    /\ (Len(date.utsec) > 1 => date.utsec[1] # "0")
    /\ (t.month = 1 /\ t.day = 1 /\ SecondsOfDay(t) = 0)
          => (SubSeq(date.idate, Len(date.idate) - 2, Len(date.idate)) = <<"0", "0", "1">>
              /\ date.utsec = <<"0">>)
    /\ (t.hour = 23 /\ t.minute = 59 /\ t.second = 59)
          => date.utsec = <<"8", "6", "3", "9", "9">>

====
